---- MODULE Spec2Model ----
(***************************************************************************)
(* A model of scripts/build-pages.js of NDYL-G/poly: one invocation reads  *)
(* data/cache.json, decides per source whether to fetch, fetches, merges,  *)
(* writes the cache back and writes the four pages.  The cache file and    *)
(* the pages outlive an invocation; everything else is per invocation.     *)
(*                                                                         *)
(* Time is the civil (Europe/London) clock: a day number and an hour.  A   *)
(* day stamp ("YYYY-MM-DD") is modelled by its day number.                 *)
(***************************************************************************)
EXTENDS Integers, Sequences, FiniteSets, TLC

VARIABLES
  clock,      \* civil time of the running invocation: [day, hour]
  file,       \* data/cache.json on disk
  pages,      \* the generated pages on disk: page name -> redirect target
  pc,         \* position of the invocation in the script
  cache,      \* const cache = await readCache()
  weather,    \* let weather
  astronomy,  \* let astronomy
  tides2d,    \* let tides2d
  file0,      \* history: the cache file when the invocation started
  last,       \* history: what the latest fetch step of the invocation did
  resolved,   \* history: the sources whose fetch step is over
  writes,     \* history: calls of writeCache in this invocation
  journal     \* history over the steps of a run and over the runs, kept by
              \* the specifications that follow sequences of runs

vars == <<clock, file, pages, pc, cache, weather, astronomy, tides2d,
          file0, last, resolved, writes, journal>>

\* ------------------------------------------------------------------ bounds
MaxDay == 1
MaxEvents == 5

Days == 0..MaxDay
Hours == 0..23
\* civil zone minus host zone, in hours (a UTC host under GMT and under BST)
Offsets == {0, 1}

\* ------------------------------------------------------------- JS values
Null == [js |-> "null"]
Undefined == [js |-> "undefined"]

Truthy(v) == v \notin {Null, Undefined}

Sources == {"weather", "astronomy", "tides2d"}

\* ----------------------------------------------------------- time helpers
ymdLocal(t) == t.day

hourLocal(t) == t.hour

ActiveFrom == 6
ActiveTo == 22

withinActive_exclusive(t) ==
  LET h == hourLocal(t) IN h >= ActiveFrom /\ h < ActiveTo

withinActive(t) ==
  LET h == hourLocal(t) IN h >= ActiveFrom /\ h <= ActiveTo

\* new Date(t.getTime() + 86400000)
plusDay(t) == [day |-> t.day + 1, hour |-> t.hour]

\* start = new Date(); start.setHours(0,0,0,0): midnight of the HOST's day,
\* as a civil time.  The host clock reads civil time minus off hours.
hostMidnight(t, off) ==
  LET hostHour == t.hour - off
      hostDay == IF hostHour < 0 THEN t.day - 1
                 ELSE IF hostHour > 23 THEN t.day + 1 ELSE t.day
  IN IF off >= 0 THEN [day |-> hostDay, hour |-> off]
     ELSE [day |-> hostDay - 1, hour |-> 24 + off]

\* --------------------------------------------------------------- the cache
Missing == [kind |-> "missing"]

stringifyEntry_nullOmitted(v) ==
  IF v \in {Undefined, Null} THEN [json |-> "omitted"]
  ELSE [json |-> "object", members |-> v]

\* JSON.stringify of one value of the store
stringifyEntry(v) ==
  IF v = Undefined THEN [json |-> "omitted"]
  ELSE IF v = Null THEN [json |-> "null"]
  ELSE [json |-> "object", members |-> v]

\* JSON.parse of one value of the document
parseEntry(j) ==
  IF j.json = "omitted" THEN Undefined
  ELSE IF j.json = "null" THEN Null
  ELSE j.members

stringify(c) == [kind |-> "json", doc |-> [k \in DOMAIN c |-> stringifyEntry(c[k])]]

EmptyStore == [weather |-> Null, tides2d |-> Null, astronomy |-> Null]

readCache_rethrowing(f) ==
  IF f.kind = "json" THEN [k \in DOMAIN f.doc |-> parseEntry(f.doc[k])]
  ELSE IF f = Missing THEN EmptyStore
  ELSE Undefined

\* try { JSON.parse(await fs.readFile(..)) } catch { return {all null} }
readCache(f) ==
  IF f.kind = "json"
  THEN IF f.doc = Null THEN Null ELSE [k \in DOMAIN f.doc |-> parseEntry(f.doc[k])]
  ELSE EmptyStore

\* --------------------------------------------------------------- fetchers
\* What the network gives one request: fetch() rejects, or a response with
\* a status and a body that r.json() parses or not.
NetworkError == [net |-> "rejected"]

Unparseable(status) == [net |-> "response", status |-> status, json |-> FALSE]

Json(status, body) == [net |-> "response", status |-> status, json |-> TRUE, body |-> body]

\* await fetch(url).then(r => r.json()): the status is never looked at
fetchJson(resp) ==
  IF resp.net = "rejected" \/ ~resp.json THEN [threw |-> TRUE]
  ELSE [threw |-> FALSE, j |-> resp.body]

Threw_retried == [threw |-> TRUE, value |-> Undefined, requests |-> 2]

\* What a call of a fetcher comes to: it throws or returns a value, having
\* sent some number of requests.
Threw == [threw |-> TRUE, value |-> Undefined, requests |-> 1]

Returned(v) == [threw |-> FALSE, value |-> v, requests |-> 1]

\* if (!key) return null
Unavailable == [threw |-> FALSE, value |-> Null, requests |-> 0]

\* x.k ?? d and x.k || d for a member that is absent or present
member(x, k, d) == IF k \in DOMAIN x THEN x[k] ELSE d

\* a string member || d
orString(x, k, d) == IF k \in DOMAIN x /\ x[k] # "" THEN x[k] ELSE d

\* Math.round of a number given in tenths
roundTenths(x) == (x + 5) \div 10

\* Math.round(c * 9 / 5 + 32), c an integer
toF(c) == (18 * c + 325) \div 10

\* Math.round(kmh * 0.621371), kmh an integer
toMph(kmh) == (kmh * 621371 + 500000) \div 1000000

MappedCodes == {0, 1, 2, 3, 45, 51, 61, 71, 95}

codeMap(code) ==
  CASE code = 0 -> "clear-day"
    [] code = 1 -> "partly-cloudy"
    [] code = 2 -> "cloudy"
    [] code \in {3, 51, 61} -> "rain"
    [] code = 45 -> "fog"
    [] code = 71 -> "snow"
    [] code = 95 -> "thunderstorm"

\* map[w.weathercode], as the page would print it
iconOf_noDefault(w) ==
  IF "weathercode" \in DOMAIN w /\ w.weathercode \in MappedCodes
  THEN codeMap(w.weathercode) ELSE "undefined"

\* map[w.weathercode] || 'clear-day'
iconOf(w) ==
  IF "weathercode" \in DOMAIN w /\ w.weathercode \in MappedCodes
  THEN codeMap(w.weathercode) ELSE "clear-day"

\* new Date().toISOString(): the capture instant, which nothing reads; the
\* model keeps the member and not its value
isoNow(t) == "iso"

fetchWeather(resp, t) ==
  LET r == fetchJson(resp) IN
  IF r.threw THEN Threw
  ELSE
    LET w == member(r.j, "current_weather", [none |-> TRUE])
        c == roundTenths(member(w, "temperature", 0))
        kmh == roundTenths(member(w, "windspeed", 0))
    IN Returned([c |-> c, f |-> toF(c), kmh |-> kmh, mph |-> toMph(kmh),
                 winddir |-> member(w, "winddirection", 0),
                 icon |-> iconOf(w), _ts |-> isoNow(t)])

\* phaseName.toLowerCase().replace(/\s+/g,'-'), on the labels of the model
slug(label) ==
  CASE label = "Waxing Gibbous" -> "waxing-gibbous"
    [] label = "Full Moon" -> "full-moon"
    [] label = "New Moon" -> "new-moon"
    [] label = "Waning  Crescent" -> "waning-crescent"
    [] label = "first quarter" -> "first-quarter"
    [] OTHER -> label

NoLabel == "(em dash)"

astronomyOf_stampedYesterday(resp, t) ==
  LET r == fetchJson(resp) IN
  IF r.threw THEN Threw
  ELSE
    LET a == member(member(r.j, "astronomy", [none |-> TRUE]), "astro", [none |-> TRUE])
        phaseName == orString(a, "moon_phase", NoLabel)
    IN Returned([sunrise |-> orString(a, "sunrise", "--:--"),
                 sunset |-> orString(a, "sunset", "--:--"),
                 phaseName |-> phaseName, phaseIcon |-> slug(phaseName),
                 _date |-> ymdLocal(t) - 1])

\* the request of fetchAstronomy and the record made of its answer
astronomyOf(resp, t) ==
  LET r == fetchJson(resp) IN
  IF r.threw THEN Threw
  ELSE
    LET a == member(member(r.j, "astronomy", [none |-> TRUE]), "astro", [none |-> TRUE])
        phaseName == orString(a, "moon_phase", NoLabel)
        phaseIcon == IF slug(phaseName) # "" THEN slug(phaseName) ELSE "full-moon"
    IN Returned([sunrise |-> orString(a, "sunrise", "--:--"),
                 sunset |-> orString(a, "sunset", "--:--"),
                 phaseName |-> phaseName, phaseIcon |-> phaseIcon,
                 _date |-> ymdLocal(t)])

fetchAstronomy_noKeyCheck(key, resp, t) == astronomyOf(resp, t)

fetchAstronomy(key, resp, t) ==
  IF ~key THEN Unavailable ELSE astronomyOf(resp, t)

\* fmtTime(e.time), to the hour
fmtTime(time) == time.hour

fmtRow(e) ==
  [arrow |-> IF e.type = "high" THEN "High" ELSE "Low",
   time |-> fmtTime(e.time), height |-> e.height]

withYmd(e) == [type |-> e.type, time |-> e.time, height |-> e.height, ymd |-> ymdLocal(e.time)]

fetchTides2Days(key, off, resp, t) ==
  IF ~key THEN Unavailable
  ELSE
    LET r == fetchJson(resp) IN
    IF r.threw THEN Threw
    ELSE
      LET start == hostMidnight(t, off)
          data == member(r.j, "data", <<>>)
          list == [i \in DOMAIN data |-> withYmd(data[i])]
          todayKey == ymdLocal(start)
          tomorrowKey == ymdLocal(plusDay(start))
          today == SelectSeq(list, LAMBDA e : e.ymd = todayKey)
          tomorrow == SelectSeq(list, LAMBDA e : e.ymd # todayKey /\ e.ymd = tomorrowKey)
      IN Returned([_date |-> todayKey, todayKey |-> todayKey, tomorrowKey |-> tomorrowKey,
                   todayItems |-> [i \in DOMAIN today |-> fmtRow(today[i])],
                   tomorrowItems |-> [i \in DOMAIN tomorrow |-> fmtRow(tomorrow[i])],
                   raw |-> [todayKey |-> todayKey, tomorrowKey |-> tomorrowKey,
                            today |-> today, tomorrow |-> tomorrow]])

\* ------------------------------------------------- what the sources answer
WeatherResponses ==
  { NetworkError, Unparseable(502),
    Json(200, [current_weather |->
                 [temperature |-> 166, windspeed |-> 105, winddirection |-> 270, weathercode |-> 3]]),
    Json(429, [error |-> TRUE]) }

AstronomyResponses ==
  { NetworkError, Unparseable(502),
    Json(200, [astronomy |-> [astro |->
                 [sunrise |-> "06:12 AM", sunset |-> "08:31 PM", moon_phase |-> "Waxing Gibbous"]]]),
    Json(403, [error |-> TRUE]) }

TideEvents(t) ==
  << [type |-> "high", time |-> [day |-> t.day, hour |-> 4], height |-> 52],
     [type |-> "low", time |-> [day |-> t.day, hour |-> 10], height |-> 11],
     [type |-> "high", time |-> [day |-> t.day + 1, hour |-> 5], height |-> 50] >>

TideResponses(t) ==
  { NetworkError, Unparseable(503),
    Json(200, [data |-> TideEvents(t)]),
    Json(200, [data |-> <<>>]),
    Json(402, [errors |-> TRUE]) }

\* the source answered with a success status and the payload the fetcher reads
answered(resp, k) ==
  resp.net = "response" /\ resp.json /\ resp.status = 200 /\ k \in DOMAIN resp.body

\* ------------------------------------------------------------ the policy
shouldFetchWeather(c, t) == withinActive(t) \/ ~Truthy(c.weather)

AstronomyHour == 6
TidesHour == 2

\* entry._date !== today, for an entry with or without the member
stampIsNot(entry, today) == "_date" \notin DOMAIN entry \/ entry._date # today

shouldFetchAstronomy_anyHour(c, t, force) ==
  IF force THEN TRUE
  ELSE IF ~Truthy(c.astronomy) THEN TRUE
  ELSE LET today == ymdLocal(t) IN stampIsNot(c.astronomy, today)

shouldFetchAstronomy_everyRunAtSix(c, t, force) ==
  IF force THEN TRUE
  ELSE IF ~Truthy(c.astronomy) THEN TRUE
  ELSE hourLocal(t) = AstronomyHour

shouldFetchAstronomy(c, t, force) ==
  IF force THEN TRUE
  ELSE IF ~Truthy(c.astronomy) THEN TRUE
  ELSE LET today == ymdLocal(t) IN hourLocal(t) = AstronomyHour /\ stampIsNot(c.astronomy, today)

shouldFetchTides2D_atSix(c, t, force) ==
  IF force THEN TRUE
  ELSE IF ~Truthy(c.tides2d) THEN TRUE
  ELSE LET today == ymdLocal(t) IN hourLocal(t) = AstronomyHour /\ stampIsNot(c.tides2d, today)

shouldFetchTides2D_unlessAstronomyMissing(c, t, force) ==
  IF force THEN TRUE
  ELSE IF ~Truthy(c.tides2d) THEN Truthy(c.astronomy)
  ELSE LET today == ymdLocal(t) IN hourLocal(t) = TidesHour /\ stampIsNot(c.tides2d, today)

shouldFetchTides2D_wheneverStale(c, t, force) ==
  IF force THEN TRUE
  ELSE IF ~Truthy(c.tides2d) THEN TRUE
  ELSE LET today == ymdLocal(t) IN stampIsNot(c.tides2d, today)

shouldFetchTides2D(c, t, force) ==
  IF force THEN TRUE
  ELSE IF ~Truthy(c.tides2d) THEN TRUE
  ELSE LET today == ymdLocal(t) IN hourLocal(t) = TidesHour /\ stampIsNot(c.tides2d, today)

\* try { weather = await fetchWeather(); cache.weather = weather; } catch {}
mergeWeather(old, res) == IF res.threw THEN old ELSE res.value

mergeGuarded_unguarded(old, res) == IF res.threw THEN old ELSE res.value

mergeGuarded_discarded(old, res) == old

\* try { const a = await fetch..(); if (a) { .. cache.x = a; } } catch {}
mergeGuarded(old, res) ==
  IF res.threw THEN old ELSE IF Truthy(res.value) THEN res.value ELSE old

caught_rethrown(res, next) == IF res.threw THEN "aborted" ELSE next

\* try { .. } catch {}: whatever the fetcher came to, the script goes on
caught(res, next) == next

\* What a fetch step did, for the record: the source, the predicate's value,
\* the force flag and the credential it read, what the fetcher came to and
\* the requests it sent.
resultOf(res, resp, k) ==
  IF res.threw THEN "threw"
  ELSE IF ~Truthy(res.value) THEN "norecord"
  ELSE IF answered(resp, k) THEN "ok" ELSE "degenerate"

NoStep == [source |-> "none", should |-> FALSE, force |-> FALSE, key |-> "unread",
           result |-> "none", requests |-> 0]

skipped(s, force) == [NoStep EXCEPT !.source = s, !.force = force, !.result = "skipped"]

fetched(s, force, key, res, resp, k) ==
  [source |-> s, should |-> TRUE, force |-> force, key |-> key,
   result |-> resultOf(res, resp, k), requests |-> res.requests]

keyRead(key) == IF key THEN "set" ELSE "unset"

\* --------------------------------------------------------------- one run
NoPages == [page \in {} |-> ""]

\* data/cache.json holding text that JSON.parse rejects
Unparseable_file == [kind |-> "unparseable"]

NoSteps == [s \in Sources |-> "none"]

\* nothing on record.  steps: what each fetch step of this run came to;
\* good: every fetch this run attempted so far returned a record; prevGood:
\* the run before wrote its pages and was good; rerun: this run started at
\* the hour and day of such a run; now: the astronomy fetch of this run
\* returned a record; fetched: an astronomy fetch returned a record on the
\* day of the clock; kept: the same, and the run that made it wrote the
\* cache; sent: the requests this run sent to each source; drawn: for each
\* step begun, the inputs it drew and what it came to; other: a second
\* invocation of the script, its position and its store
NoJournal == [steps |-> NoSteps, good |-> TRUE, prevGood |-> FALSE, rerun |-> FALSE,
              now |-> FALSE, fetched |-> FALSE, kept |-> FALSE,
              sent |-> [s \in Sources |-> 0], drawn |-> [s \in {} |-> NoStep],
              other |-> [pc |-> "idle", cache |-> Undefined]]

Init ==
  /\ clock \in [day : {0}, hour : Hours]
  /\ file \in {Missing, Unparseable_file}
  /\ pages = NoPages
  /\ pc = "idle"
  /\ cache = Undefined
  /\ weather = Undefined
  /\ astronomy = Undefined
  /\ tides2d = Undefined
  /\ file0 = file
  /\ last = NoStep
  /\ resolved = {}
  /\ writes = 0
  /\ journal = NoJournal

notBefore(t, u) == t.day > u.day \/ (t.day = u.day /\ t.hour >= u.hour)

\* the scheduler starts the script (part_000: cron, workflow_dispatch)
StartRun ==
  /\ pc = "idle"
  /\ \E t \in [day : Days, hour : Hours] : notBefore(t, clock) /\ clock' = t
  /\ pc' = "readCache"
  /\ file0' = file
  /\ UNCHANGED <<file, pages, cache, weather, astronomy, tides2d, last, resolved, writes>>

ReadCache_seeding ==
  /\ pc = "readCache"
  /\ cache' = readCache(file)
  /\ file' = IF file.kind = "json" THEN file ELSE stringify(EmptyStore)
  /\ pc' = "weather"
  /\ UNCHANGED <<clock, pages, weather, astronomy, tides2d, file0, last, resolved, writes>>

\* const cache = await readCache()
ReadCache ==
  /\ pc = "readCache"
  /\ cache' = readCache(file)
  /\ pc' = "weather"
  /\ UNCHANGED <<clock, file, pages, weather, astronomy, tides2d, file0, last, resolved, writes>>

\* let weather = cache.weather; if (shouldFetchWeather()) { try .. catch {} }
FetchWeatherStep ==
  /\ pc = "weather"
  /\ IF shouldFetchWeather(cache, clock)
     THEN \E resp \in WeatherResponses :
            LET res == fetchWeather(resp, clock)
                new == mergeWeather(cache.weather, res)
            IN /\ weather' = new
               /\ cache' = [cache EXCEPT !.weather = new]
               /\ last' = fetched("weather", FALSE, "unread", res, resp, "current_weather")
               /\ pc' = caught(res, "astronomy")
     ELSE /\ weather' = cache.weather
          /\ last' = skipped("weather", FALSE)
          /\ pc' = "astronomy"
          /\ UNCHANGED cache
  /\ resolved' = resolved \cup {"weather"}
  /\ UNCHANGED <<clock, file, pages, astronomy, tides2d, file0, writes>>

\* let astronomy = cache.astronomy; if (shouldFetchAstronomy()) { try .. catch {} }
\* FORCE_ASTRONOMY and WEATHERAPI_KEY are read from process.env; each is used
\* by this step alone, so the step draws them.
FetchAstronomyStep ==
  /\ pc = "astronomy"
  /\ \E force \in BOOLEAN :
       IF shouldFetchAstronomy(cache, clock, force)
       THEN \E key \in BOOLEAN, resp \in AstronomyResponses :
              LET res == fetchAstronomy(key, resp, clock)
                  new == mergeGuarded(cache.astronomy, res)
              IN /\ astronomy' = new
                 /\ cache' = [cache EXCEPT !.astronomy = new]
                 /\ last' = fetched("astronomy", force, keyRead(key), res, resp, "astronomy")
                 /\ pc' = caught(res, "tides")
       ELSE /\ astronomy' = cache.astronomy
            /\ last' = skipped("astronomy", force)
            /\ pc' = "tides"
            /\ UNCHANGED cache
  /\ resolved' = resolved \cup {"astronomy"}
  /\ UNCHANGED <<clock, file, pages, weather, tides2d, file0, writes>>

\* let tides2d = cache.tides2d; if (shouldFetchTides2D()) { try .. catch {} }
\* FORCE_TIDES, STORMGLASS_KEY and the host's zone are used by this step alone.
FetchTidesStep ==
  /\ pc = "tides"
  /\ \E force \in BOOLEAN :
       IF shouldFetchTides2D(cache, clock, force)
       THEN \E key \in BOOLEAN, off \in Offsets, resp \in TideResponses(clock) :
              LET res == fetchTides2Days(key, off, resp, clock)
                  new == mergeGuarded(cache.tides2d, res)
              IN /\ tides2d' = new
                 /\ cache' = [cache EXCEPT !.tides2d = new]
                 /\ last' = fetched("tides2d", force, keyRead(key), res, resp, "data")
                 /\ pc' = caught(res, "writeCache")
       ELSE /\ tides2d' = cache.tides2d
            /\ last' = skipped("tides2d", force)
            /\ pc' = "writeCache"
            /\ UNCHANGED cache
  /\ resolved' = resolved \cup {"tides2d"}
  /\ UNCHANGED <<clock, file, pages, weather, astronomy, file0, writes>>

\* the fallbacks of the three locals
WeatherPlaceholder == [c |-> 0, f |-> 32, kmh |-> 0, mph |-> 0, winddir |-> 0, icon |-> "clear-day"]

AstronomyPlaceholder ==
  [sunrise |-> "--:--", sunset |-> "--:--", phaseName |-> NoLabel, phaseIcon |-> "full-moon"]

TidesPlaceholder(t) ==
  [todayItems |-> <<NoLabel>>, tomorrowItems |-> <<NoLabel>>,
   raw |-> [today |-> <<>>, tomorrow |-> <<>>],
   todayKey |-> ymdLocal(t), tomorrowKey |-> ymdLocal(plusDay(t))]

\* if (!x) x = d
orElse(v, d) == IF Truthy(v) THEN v ELSE d

WriteCache_skipUnchanged ==
  /\ pc = "writeCache"
  /\ weather' = orElse(weather, WeatherPlaceholder)
  /\ astronomy' = orElse(astronomy, AstronomyPlaceholder)
  /\ tides2d' = orElse(tides2d, TidesPlaceholder(clock))
  /\ IF file = stringify(cache)
     THEN file' = file /\ writes' = writes /\ pc' = "writePages"
     ELSE /\ writes' = writes + 1
          /\ \/ file' = stringify(cache) /\ pc' = "writePages"
             \/ file' = file /\ pc' = "aborted"
  /\ UNCHANGED <<clock, pages, cache, file0, last, resolved>>

\* FALLBACKS, then await writeCache(cache): mkdir fails, or the file is written
WriteCache ==
  /\ pc = "writeCache"
  /\ weather' = orElse(weather, WeatherPlaceholder)
  /\ astronomy' = orElse(astronomy, AstronomyPlaceholder)
  /\ tides2d' = orElse(tides2d, TidesPlaceholder(clock))
  /\ writes' = writes + 1
  /\ \/ file' = stringify(cache) /\ pc' = "writePages"
     \/ file' = file /\ pc' = "aborted"
  /\ UNCHANGED <<clock, pages, cache, file0, last, resolved>>

Carousel_sunToTides ==
  [page \in {"page1-weather.html", "page2-tides.html", "page3-moon.html", "page4-sun.html"} |->
     CASE page = "page1-weather.html" -> "page2-tides.html"
       [] page = "page2-tides.html" -> "page3-moon.html"
       [] page = "page3-moon.html" -> "page4-sun.html"
       [] page = "page4-sun.html" -> "page2-tides.html"]

\* wrap(title, body, nextPage), written to the four files
Carousel ==
  [page \in {"page1-weather.html", "page2-tides.html", "page3-moon.html", "page4-sun.html"} |->
     CASE page = "page1-weather.html" -> "page2-tides.html"
       [] page = "page2-tides.html" -> "page3-moon.html"
       [] page = "page3-moon.html" -> "page4-sun.html"
       [] page = "page4-sun.html" -> "page1-weather.html"]

WritePages ==
  /\ pc = "writePages"
  /\ pages' = Carousel
  /\ pc' = "done"
  /\ UNCHANGED <<clock, file, cache, weather, astronomy, tides2d, file0, last, resolved, writes>>

\* the process ends; its memory is gone
Exit ==
  /\ pc \in {"done", "aborted"}
  /\ pc' = "idle"
  /\ cache' = Undefined
  /\ weather' = Undefined
  /\ astronomy' = Undefined
  /\ tides2d' = Undefined
  /\ file0' = file
  /\ last' = NoStep
  /\ resolved' = {}
  /\ writes' = 0
  /\ UNCHANGED <<clock, file, pages>>

Next ==
  \/ StartRun /\ UNCHANGED journal
  \/ ReadCache /\ UNCHANGED journal
  \/ FetchWeatherStep /\ UNCHANGED journal
  \/ FetchAstronomyStep /\ UNCHANGED journal
  \/ FetchTidesStep /\ UNCHANGED journal
  \/ WriteCache /\ UNCHANGED journal
  \/ WritePages /\ UNCHANGED journal
  \/ Exit /\ UNCHANGED journal

Spec == Init /\ [][Next]_vars

\* ------------------------------------------------ the earlier drafts
\* src/unnamed/part_001 and part_002 are the script with the fetch results
\* assigned to the store as they come, the cache written before the
\* fallbacks, and a tide record without the raw buckets.
mergeDirect(old, res) == IF res.threw THEN old ELSE res.value

fetchTides2DaysFlat(key, off, resp, t) ==
  LET res == fetchTides2Days(key, off, resp, t) IN
  IF res.threw \/ ~Truthy(res.value) THEN res
  ELSE [res EXCEPT !.value = [k \in DOMAIN res.value \ {"raw"} |-> res.value[k]]]

DraftFetchWeather ==
  /\ pc = "weather"
  /\ IF shouldFetchWeather(cache, clock)
     THEN \E resp \in WeatherResponses :
            LET res == fetchWeather(resp, clock) IN
            /\ cache' = [cache EXCEPT !.weather = mergeDirect(cache.weather, res)]
            /\ last' = fetched("weather", FALSE, "unread", res, resp, "current_weather")
     ELSE /\ last' = skipped("weather", FALSE)
          /\ UNCHANGED cache
  /\ pc' = "astronomy"
  /\ resolved' = resolved \cup {"weather"}
  /\ UNCHANGED <<clock, file, pages, weather, astronomy, tides2d, file0, writes>>

DraftFetchAstronomy ==
  /\ pc = "astronomy"
  /\ \E force \in BOOLEAN :
       IF shouldFetchAstronomy(cache, clock, force)
       THEN \E key \in BOOLEAN, resp \in AstronomyResponses :
              LET res == fetchAstronomy(key, resp, clock) IN
              /\ cache' = [cache EXCEPT !.astronomy = mergeDirect(cache.astronomy, res)]
              /\ last' = fetched("astronomy", force, keyRead(key), res, resp, "astronomy")
       ELSE /\ last' = skipped("astronomy", force)
            /\ UNCHANGED cache
  /\ pc' = "tides"
  /\ resolved' = resolved \cup {"astronomy"}
  /\ UNCHANGED <<clock, file, pages, weather, astronomy, tides2d, file0, writes>>

DraftFetchTides ==
  /\ pc = "tides"
  /\ \E force \in BOOLEAN :
       IF shouldFetchTides2D(cache, clock, force)
       THEN \E key \in BOOLEAN, off \in Offsets, resp \in TideResponses(clock) :
              LET res == fetchTides2DaysFlat(key, off, resp, clock) IN
              /\ cache' = [cache EXCEPT !.tides2d = mergeDirect(cache.tides2d, res)]
              /\ last' = fetched("tides2d", force, keyRead(key), res, resp, "data")
       ELSE /\ last' = skipped("tides2d", force)
            /\ UNCHANGED cache
  /\ pc' = "writeCache"
  /\ resolved' = resolved \cup {"tides2d"}
  /\ UNCHANGED <<clock, file, pages, weather, astronomy, tides2d, file0, writes>>

\* await writeCache(cache)
DraftWriteCache ==
  /\ pc = "writeCache"
  /\ writes' = writes + 1
  /\ \/ file' = stringify(cache) /\ pc' = "writePages"
     \/ file' = file /\ pc' = "aborted"
  /\ UNCHANGED <<clock, pages, cache, weather, astronomy, tides2d, file0, last, resolved>>

DraftTidesPlaceholder(t) ==
  [todayItems |-> <<NoLabel>>, tomorrowItems |-> <<NoLabel>>,
   todayKey |-> ymdLocal(t), tomorrowKey |-> ymdLocal(t)]

\* the fallbacks, the page bodies and the four files
DraftWritePages ==
  /\ pc = "writePages"
  /\ weather' = orElse(cache.weather, WeatherPlaceholder)
  /\ astronomy' = orElse(cache.astronomy, AstronomyPlaceholder)
  /\ tides2d' = orElse(cache.tides2d, DraftTidesPlaceholder(clock))
  /\ pages' = Carousel
  /\ pc' = "done"
  /\ UNCHANGED <<clock, file, cache, file0, last, resolved, writes>>

NextDraft ==
  \/ StartRun /\ UNCHANGED journal
  \/ ReadCache /\ UNCHANGED journal
  \/ DraftFetchWeather /\ UNCHANGED journal
  \/ DraftFetchAstronomy /\ UNCHANGED journal
  \/ DraftFetchTides /\ UNCHANGED journal
  \/ DraftWriteCache /\ UNCHANGED journal
  \/ DraftWritePages /\ UNCHANGED journal
  \/ Exit /\ UNCHANGED journal

SpecDraft == Init /\ [][NextDraft]_vars

\* --------------------------------------------------- sequences of runs
\* The script as in Spec, run after run, with one part of the history on
\* record in the journal: "steps" (what each fetch step of the run came
\* to), "reruns" (a run right after a good run, at the same hour and day)
\* or "day" (the astronomy fetches of the day).
returnedRecord(result) == result \in {"ok", "degenerate"}

\* a run starts at u, the one before it having started at t
begun(j, t, u, keeps) ==
  [j EXCEPT !.rerun = keeps = "reruns" /\ j.prevGood /\ u = t,
            !.fetched = @ /\ ymdLocal(u) = ymdLocal(t),
            !.kept = @ /\ ymdLocal(u) = ymdLocal(t)]

noted(j, step, keeps) ==
  LET record == step.source = "astronomy" /\ returnedRecord(step.result) IN
  [j EXCEPT !.steps = IF keeps = "steps" THEN [@ EXCEPT ![step.source] = step.result] ELSE @,
            !.good = IF keeps = "reruns"
                     THEN @ /\ (step.result = "skipped" \/ returnedRecord(step.result))
                     ELSE @,
            !.now = IF keeps = "day" THEN @ \/ record ELSE @,
            !.fetched = IF keeps = "day" THEN @ \/ record ELSE @,
            !.sent = IF keeps = "steps"
                     THEN [@ EXCEPT ![step.source] = @ + step.requests] ELSE @]

written(j, ok) == [j EXCEPT !.kept = @ \/ (ok /\ j.now)]

ended(j, done, keeps) ==
  [j EXCEPT !.steps = NoSteps, !.good = TRUE, !.now = FALSE, !.rerun = FALSE,
            !.sent = [s \in Sources |-> 0],
            !.prevGood = keeps = "reruns" /\ done /\ j.good]

NextKeeping(keeps) ==
  \/ StartRun /\ journal' = begun(journal, clock, clock', keeps)
  \/ ReadCache /\ UNCHANGED journal
  \/ FetchWeatherStep /\ journal' = noted(journal, last', keeps)
  \/ FetchAstronomyStep /\ journal' = noted(journal, last', keeps)
  \/ FetchTidesStep /\ journal' = noted(journal, last', keeps)
  \/ WriteCache /\ journal' = written(journal, pc' = "writePages")
  \/ WritePages /\ UNCHANGED journal
  \/ Exit /\ journal' = ended(journal, pc = "done", keeps)

SpecSteps == Init /\ [][NextKeeping("steps")]_vars

SpecReruns == Init /\ [][NextKeeping("reruns")]_vars

SpecDay == Init /\ [][NextKeeping("day")]_vars

\* ------------------------------------------ a cache file of another make
\* The script started on a data/cache.json that parses but is not a store
\* of its own writing: the text null, an object without some of the keys,
\* or keys holding an object without the members the script reads.
Foreign == [legacy |-> TRUE]

NullDocument == [kind |-> "json", doc |-> Null]

OddFiles ==
  {NullDocument} \cup
  { stringify([weather |-> w, tides2d |-> t, astronomy |-> a]) :
      w \in {Undefined, Foreign}, t \in {Undefined, Null, Foreign}, a \in {Undefined, Foreign} }

InitFiles ==
  /\ clock \in [day : {0}, hour : Hours]
  /\ file \in OddFiles
  /\ pages = NoPages
  /\ pc = "idle"
  /\ cache = Undefined
  /\ weather = Undefined
  /\ astronomy = Undefined
  /\ tides2d = Undefined
  /\ file0 = file
  /\ last = NoStep
  /\ resolved = {}
  /\ writes = 0
  /\ journal = NoJournal

\* an uncaught TypeError ends the process
TypeError == [NoStep EXCEPT !.result = "TypeError"]

crash ==
  /\ pc' = "aborted"
  /\ last' = TypeError
  /\ UNCHANGED <<clock, file, pages, cache, weather, astronomy, tides2d, file0, resolved, writes>>

FilesStart == StartRun /\ file \in OddFiles

\* let weather = cache.weather, on a cache that is null
FilesWeather == IF cache = Null THEN pc = "weather" /\ crash ELSE FetchWeatherStep

\* dayLabel(tides2d.todayKey): ymdStr.split on a member that is not there
rendersTides(t) == {"todayKey", "tomorrowKey"} \subseteq DOMAIN t

FilesPages == IF rendersTides(tides2d) THEN WritePages ELSE pc = "writePages" /\ crash

NextFiles ==
  \/ FilesStart /\ UNCHANGED journal
  \/ ReadCache /\ UNCHANGED journal
  \/ FilesWeather /\ UNCHANGED journal
  \/ FetchAstronomyStep /\ UNCHANGED journal
  \/ FetchTidesStep /\ UNCHANGED journal
  \/ WriteCache /\ UNCHANGED journal
  \/ FilesPages /\ UNCHANGED journal
  \/ Exit /\ UNCHANGED journal

SpecFiles == InitFiles /\ [][NextFiles]_vars

\* ------------------------------------------------- the tide fetcher alone
\* fetchTides2Days called with the credential set, at any hour, on a host in
\* either zone, on every answer of the source: a failure, or a list of up to
\* MaxEvents distinct events in any order, five of them on the day of the
\* call, one on the next day and one on the day after.
TideSample(t) ==
  { [type |-> "high", time |-> [day |-> t.day, hour |-> h], height |-> 50] : h \in {1, 13, 23} }
  \cup { [type |-> "low", time |-> [day |-> t.day, hour |-> h], height |-> 10] : h \in {7, 19} }
  \cup { [type |-> "high", time |-> [day |-> t.day + 1, hour |-> 5], height |-> 49],
         [type |-> "low", time |-> [day |-> t.day + 2, hour |-> 3], height |-> 11] }

EventLists(t) ==
  UNION { { s \in [1..n -> TideSample(t)] : \A i, j \in 1..n : i # j => s[i] # s[j] } :
            n \in 0..MaxEvents }

TideAnswers(t) ==
  { NetworkError, Unparseable(503), Json(402, [errors |-> TRUE]) }
  \cup { Json(200, [data |-> l]) : l \in EventLists(t) }

\* const t = await fetchTides2Days(), with what the source answered on record
TideCall ==
  /\ pc = "idle"
  /\ \E off \in Offsets, resp \in TideAnswers(clock) :
       LET res == fetchTides2Days(TRUE, off, resp, clock) IN
       /\ tides2d' = res.value
       /\ last' = [source |-> "tides2d", should |-> TRUE, force |-> FALSE, key |-> "set",
                   result |-> resultOf(res, resp, "data"), requests |-> res.requests,
                   answer |-> resp]
  /\ pc' = "fetched"
  /\ UNCHANGED <<clock, file, pages, cache, weather, astronomy, file0, resolved, writes, journal>>

TideReturn ==
  /\ pc = "fetched"
  /\ pc' = "idle"
  /\ tides2d' = Undefined
  /\ last' = NoStep
  /\ UNCHANGED <<clock, file, pages, cache, weather, astronomy, file0, resolved, writes, journal>>

NextTides ==
  \/ TideCall
  \/ TideReturn

SpecTides == Init /\ [][NextTides]_vars

\* ------------------------------------- the weather and astronomy fetchers
\* fetchWeather and fetchAstronomy called alone, at any hour, on every answer
\* of their source: a failure, or a body with the members present or not.
\* Temperatures and wind speeds are in tenths, as the source reports them.
Temperatures == {-15, 0, 164, 166, 305}

WindSpeeds == {0, 7, 105, 323}

\* WMO codes the source reports, in the map and not
WeatherCodes == MappedCodes \cup {4, 48, 80, 99}

CurrentWeather ==
  { [temperature |-> c, windspeed |-> k, winddirection |-> 270, weathercode |-> code] :
      c \in Temperatures, k \in WindSpeeds, code \in WeatherCodes }
  \cup { [temperature |-> c, windspeed |-> k, winddirection |-> 270] :
           c \in Temperatures, k \in WindSpeeds }

WeatherAnswers ==
  { NetworkError, Unparseable(502), Json(429, [error |-> TRUE]) }
  \cup { Json(200, [current_weather |-> w]) : w \in CurrentWeather }

MoonLabels == {"Waxing Gibbous", "Full Moon", "New Moon", "Waning  Crescent", "first quarter", ""}

Astro ==
  { [sunrise |-> "06:12 AM", sunset |-> "08:31 PM", moon_phase |-> l] : l \in MoonLabels }
  \cup { [sunrise |-> "06:12 AM", sunset |-> "08:31 PM"] }

AstronomyAnswers ==
  { NetworkError, Unparseable(502), Json(403, [error |-> TRUE]) }
  \cup { Json(200, [astronomy |-> [astro |-> a]]) : a \in Astro }

\* weather = await fetchWeather(), with what the source answered on record
WeatherCall ==
  /\ pc = "idle"
  /\ \E resp \in WeatherAnswers :
       LET res == fetchWeather(resp, clock) IN
       /\ weather' = res.value
       /\ last' = [source |-> "weather", should |-> TRUE, force |-> FALSE, key |-> "unread",
                   result |-> resultOf(res, resp, "current_weather"),
                   requests |-> res.requests, answer |-> resp]
  /\ pc' = "fetched"
  /\ UNCHANGED <<clock, file, pages, cache, astronomy, tides2d, file0, resolved, writes, journal>>

\* const a = await fetchAstronomy(), with what the source answered on record
AstronomyCall ==
  /\ pc = "idle"
  /\ \E key \in BOOLEAN, resp \in AstronomyAnswers :
       LET res == fetchAstronomy(key, resp, clock) IN
       /\ astronomy' = res.value
       /\ last' = [source |-> "astronomy", should |-> TRUE, force |-> FALSE, key |-> keyRead(key),
                   result |-> resultOf(res, resp, "astronomy"),
                   requests |-> res.requests, answer |-> resp]
  /\ pc' = "fetched"
  /\ UNCHANGED <<clock, file, pages, cache, weather, tides2d, file0, resolved, writes, journal>>

FetcherReturn ==
  /\ pc = "fetched"
  /\ pc' = "idle"
  /\ weather' = Undefined
  /\ astronomy' = Undefined
  /\ last' = NoStep
  /\ UNCHANGED <<clock, file, pages, cache, tides2d, file0, resolved, writes, journal>>

NextFetchers ==
  \/ WeatherCall
  \/ AstronomyCall
  \/ FetcherReturn

SpecFetchers == Init /\ [][NextFetchers]_vars

\* ------------------------------------------- the three steps in any order
\* One run of the script with the three fetch steps issued concurrently:
\* each source's step begins (the predicate is evaluated and, when it is
\* true, the fetcher is called and answered) and later merges (the
\* assignments after the await), in any order and interleaving.  The
\* journal keeps, per source, the inputs the step drew and what it came to.
PolicyHours == {TidesHour, AstronomyHour, 10, 23}

WarmAt == [day |-> 0, hour |-> TidesHour]

WarmStore ==
  [weather |-> fetchWeather(Json(200, [current_weather |->
                 [temperature |-> 121, windspeed |-> 80, winddirection |-> 90, weathercode |-> 1]]),
                 WarmAt).value,
   astronomy |-> astronomyOf(Json(200, [astronomy |-> [astro |->
                   [sunrise |-> "06:10 AM", sunset |-> "08:33 PM", moon_phase |-> "Full Moon"]]]),
                   WarmAt).value,
   tides2d |-> fetchTides2Days(TRUE, 0, Json(200, [data |-> TideEvents(WarmAt)]), WarmAt).value]

StartFiles ==
  { Missing, stringify(WarmStore),
    stringify([WarmStore EXCEPT !.astronomy = Null, !.tides2d = Null]) }

InitAnyOrder ==
  /\ clock \in [day : {0}, hour : PolicyHours]
  /\ file \in StartFiles
  /\ pages = NoPages
  /\ pc = "idle"
  /\ cache = Undefined
  /\ weather = Undefined
  /\ astronomy = Undefined
  /\ tides2d = Undefined
  /\ file0 = file
  /\ last = NoStep
  /\ resolved = {}
  /\ writes = 0
  /\ journal = NoJournal

\* process.env and the network, as one step finds them
StepInputs(s, t) ==
  CASE s = "weather" ->
         { [force |-> FALSE, key |-> TRUE, off |-> 0, resp |-> r] : r \in WeatherResponses }
    [] s = "astronomy" ->
         { [force |-> f, key |-> FALSE, off |-> 0, resp |-> NetworkError] : f \in BOOLEAN }
         \cup { [force |-> f, key |-> TRUE, off |-> 0, resp |-> r] :
                  f \in BOOLEAN, r \in AstronomyResponses }
    [] s = "tides2d" ->
         { [force |-> f, key |-> FALSE, off |-> 0, resp |-> NetworkError] : f \in BOOLEAN }
         \cup { [force |-> f, key |-> TRUE, off |-> o, resp |-> r] :
                  f \in BOOLEAN, o \in Offsets, r \in TideResponses(t) }

shouldFetch(s, c, t, force) ==
  CASE s = "weather" -> shouldFetchWeather(c, t)
    [] s = "astronomy" -> shouldFetchAstronomy(c, t, force)
    [] s = "tides2d" -> shouldFetchTides2D(c, t, force)

called(s, in, t) ==
  CASE s = "weather" -> fetchWeather(in.resp, t)
    [] s = "astronomy" -> fetchAstronomy(in.key, in.resp, t)
    [] s = "tides2d" -> fetchTides2Days(in.key, in.off, in.resp, t)

merged(s, old, res) ==
  IF s = "weather" THEN mergeWeather(old, res) ELSE mergeGuarded(old, res)

\* the entry of source s after its step, run on the store c with inputs in
entryAfter(s, c, t, in) ==
  IF shouldFetch(s, c, t, in.force) THEN merged(s, c[s], called(s, in, t)) ELSE c[s]

\* the store after the three steps in the order of the script, each run on
\* the store the step before it left, with the inputs on record
inScriptOrder(c, t, steps) ==
  LET c1 == [c EXCEPT !.weather = entryAfter("weather", c, t, steps.weather.in)]
      c2 == [c1 EXCEPT !.astronomy = entryAfter("astronomy", c1, t, steps.astronomy.in)]
  IN [c2 EXCEPT !.tides2d = entryAfter("tides2d", c2, t, steps.tides2d.in)]

AnyStart == StartRun /\ hourLocal(clock') \in PolicyHours /\ UNCHANGED journal

AnyRead ==
  /\ pc = "readCache"
  /\ cache' = readCache(file)
  /\ pc' = "fetching"
  /\ UNCHANGED <<clock, file, pages, weather, astronomy, tides2d, file0, last, resolved, writes, journal>>

\* if (shouldFetchX()) { .. await fetchX() ..: up to the await's answer
BeginStep ==
  /\ pc = "fetching"
  /\ \E s \in Sources : \E in \in StepInputs(s, clock) :
       /\ s \notin DOMAIN journal.drawn
       /\ journal' = [journal EXCEPT !.drawn =
                        [x \in DOMAIN @ \cup {s} |->
                           IF x = s
                           THEN [in |-> in, should |-> shouldFetch(s, cache, clock, in.force)]
                           ELSE @[x]]]
  /\ UNCHANGED <<clock, file, pages, pc, cache, weather, astronomy, tides2d, file0, last, resolved, writes>>

\* .. x = a; cache.x = a; } after the await, or the local left as read
MergeStep ==
  /\ pc = "fetching"
  /\ \E s \in Sources \ resolved :
       /\ s \in DOMAIN journal.drawn
       /\ LET step == journal.drawn[s]
              new == IF step.should
                     THEN merged(s, cache[s], called(s, step.in, clock))
                     ELSE cache[s]
          IN /\ cache' = [cache EXCEPT ![s] = new]
             /\ weather' = IF s = "weather" THEN new ELSE weather
             /\ astronomy' = IF s = "astronomy" THEN new ELSE astronomy
             /\ tides2d' = IF s = "tides2d" THEN new ELSE tides2d
             /\ last' = IF step.should
                        THEN fetched(s, step.in.force, keyRead(step.in.key),
                                     called(s, step.in, clock), step.in.resp,
                                     CASE s = "weather" -> "current_weather"
                                       [] s = "astronomy" -> "astronomy"
                                       [] s = "tides2d" -> "data")
                        ELSE skipped(s, step.in.force)
       /\ resolved' = resolved \cup {s}
       /\ pc' = IF resolved \cup {s} = Sources THEN "writeCache" ELSE "fetching"
  /\ UNCHANGED <<clock, file, pages, file0, writes, journal>>

NextAnyOrder ==
  \/ AnyStart
  \/ AnyRead
  \/ BeginStep
  \/ MergeStep
  \/ WriteCache /\ UNCHANGED journal
  \/ WritePages /\ UNCHANGED journal

SpecAnyOrder == InitAnyOrder /\ [][NextAnyOrder]_vars

\* ------------------------------------------------------ overlapping runs
\* Two invocations of the script on the same data/cache.json, the second
\* (kept in journal.other) started while the first is between its start and
\* its write.  The file is all they share.
overwrite_keepingWhatItLacks(f, c) ==
  IF f.kind # "json" THEN stringify(c)
  ELSE stringify([k \in DOMAIN c |-> IF Truthy(c[k]) THEN c[k] ELSE readCache(f)[k]])

\* fs.writeFile(CACHE_PATH, JSON.stringify(cache, null, 2)): whatever is there
overwrite(f, c) == stringify(c)

OverlapStart == StartRun /\ hourLocal(clock') \in PolicyHours /\ UNCHANGED journal

OtherStart ==
  /\ pc \in {"readCache", "weather", "astronomy", "tides", "writeCache"}
  /\ journal.other.pc = "idle"
  /\ journal' = [journal EXCEPT !.other.pc = "readCache"]
  /\ UNCHANGED <<clock, file, pages, pc, cache, weather, astronomy, tides2d,
                 file0, last, resolved, writes>>

\* const cache = await readCache(), in the second invocation
OtherRead ==
  /\ journal.other.pc = "readCache"
  /\ journal' = [journal EXCEPT !.other = [pc |-> "weather", cache |-> readCache(file)]]
  /\ UNCHANGED <<clock, file, pages, pc, cache, weather, astronomy, tides2d,
                 file0, last, resolved, writes>>

\* FETCH DATA, in the second invocation: one source's step
OtherFetch ==
  /\ journal.other.pc \in {"weather", "astronomy", "tides"}
  /\ LET s == CASE journal.other.pc = "weather" -> "weather"
                 [] journal.other.pc = "astronomy" -> "astronomy"
                 [] journal.other.pc = "tides" -> "tides2d"
         next == CASE s = "weather" -> "astronomy"
                   [] s = "astronomy" -> "tides"
                   [] s = "tides2d" -> "writeCache"
     IN \E in \in StepInputs(s, clock) :
          journal' = [journal EXCEPT
                        !.other = [pc |-> next,
                                   cache |-> [journal.other.cache EXCEPT
                                                ![s] = entryAfter(s, journal.other.cache, clock, in)]]]
  /\ UNCHANGED <<clock, file, pages, pc, cache, weather, astronomy, tides2d,
                 file0, last, resolved, writes>>

\* await writeCache(cache), in the second invocation
OtherWrite ==
  /\ journal.other.pc = "writeCache"
  /\ \/ /\ file' = overwrite(file, journal.other.cache)
        /\ journal' = [journal EXCEPT !.other.pc = "written"]
     \/ /\ file' = file
        /\ journal' = [journal EXCEPT !.other.pc = "aborted"]
  /\ UNCHANGED <<clock, pages, pc, cache, weather, astronomy, tides2d,
                 file0, last, resolved, writes>>

NextOverlap ==
  \/ OverlapStart
  \/ ReadCache /\ UNCHANGED journal
  \/ FetchWeatherStep /\ UNCHANGED journal
  \/ FetchAstronomyStep /\ UNCHANGED journal
  \/ FetchTidesStep /\ UNCHANGED journal
  \/ WriteCache /\ UNCHANGED journal
  \/ WritePages /\ UNCHANGED journal
  \/ OtherStart
  \/ OtherRead
  \/ OtherFetch
  \/ OtherWrite

SpecOverlap == InitAnyOrder /\ [][NextOverlap]_vars

\* ------------------------------------------------------------- the claims
\* the store the invocation read, recomputed from the file it started with
stored == readCache(file0)

\* C1: shouldFetchWeather is true exactly when the local hour is in [6,22] or
\* the weather entry is absent, at every hour and for every cache state.
C1_WeatherPolicy ==
  last.source = "weather" =>
    (last.should <=> (clock.hour \in 6..22 \/ stored.weather = Null))

C1_Witness ==
  last.source = "weather" /\ ~last.should /\ clock.hour = 23 /\ stored.weather # Null

\* C2: shouldFetchAstronomy equals force, or the entry absent, or the hour 6
\* with a day stamp other than today.
C2_AstronomyPolicy ==
  last.source = "astronomy" =>
    (last.should <=>
       (last.force \/ stored.astronomy = Null
          \/ (clock.hour = 6 /\ stored.astronomy._date # clock.day)))

C2_Witness ==
  /\ last.source = "astronomy" /\ last.should /\ ~last.force
  /\ stored.astronomy # Null /\ clock.hour = 6

\* C3: shouldFetchTides2D equals force, or the entry absent, or the hour 2
\* with a day stamp other than today.
C3_TidesPolicy ==
  last.source = "tides2d" =>
    (last.should <=>
       (last.force \/ stored.tides2d = Null
          \/ (clock.hour = 2 /\ stored.tides2d._date # clock.day)))

C3_Witness ==
  /\ last.source = "tides2d" /\ last.should /\ ~last.force
  /\ stored.tides2d # Null /\ clock.hour = 2

C5_MissingKeyKeepsEntry ==
  /\ \A s \in {"astronomy", "tides2d"} :
       (last.source = s /\ last.key = "unset" /\ stored[s] # Null) => cache[s] = stored[s]
  /\ pc = "done" =>
       \A s \in {"astronomy", "tides2d"} :
         stored[s] # Null => readCache(file)[s] # Null

\* C6: a weather or astronomy response with a non-success status or without
\* the expected members leaves a present entry as it was read.
C6_FailureResponseKeepsEntry ==
  \A s \in {"weather", "astronomy"} :
    (last.source = s /\ last.result = "degenerate" /\ stored[s] # Null)
      => cache[s] = stored[s]

\* C7: writeCache is called at most once in a run, only after the three
\* fetch steps are over, and a run that reaches the pages has called it
\* once; a run that refreshed nothing has written the store it read.
C7_OneWriteAfterAllFetches ==
  /\ writes <= 1
  /\ writes = 1 => resolved = Sources
  /\ pc \in {"writePages", "done"} => writes = 1
  /\ (pc \in {"writePages", "done"} /\ cache = stored) => file = stringify(stored)

C7_Witness ==
  /\ pc = "done" /\ writes = 1 /\ cache = stored /\ file0.kind = "json"
  /\ last.result = "skipped"

\* C8: until writeCache is called the file is the one the run started with,
\* a run that aborts leaves it so, and from the write to the end of the run
\* the file is the serialised in-memory store.
C8_FileChangesOnlyAtTheWrite ==
  /\ writes = 0 => file = file0
  /\ pc = "aborted" => file = file0
  /\ pc \in {"writePages", "done"} => file = stringify(cache)

C8_Witness ==
  /\ pc = "done" /\ file # file0 /\ file0.kind = "json" /\ file = stringify(cache)

\* C9: whatever the three fetchers come to, the run reaches writeCache and
\* then the pages: a run aborts only inside writeCache, every position up to
\* the pages has a next step, and a finished run has written cache and pages.
C9_NoFetchOutcomeAborts ==
  /\ pc = "aborted" => (resolved = Sources /\ writes = 1)
  /\ pc \in {"weather", "astronomy", "tides", "writeCache", "writePages"} => ENABLED Next
  /\ pc = "done" => (writes = 1 /\ file = stringify(cache) /\ pages = Carousel)

C9_Witness ==
  pc = "done" /\ last.source = "tides2d" /\ last.result = "threw" /\ pages = Carousel

\* C10: with the credential absent the astronomy or tide fetcher returns no
\* record and sends no request, whatever the hour, the entry and the force
\* flag, and the run does not abort on it.
C10_NoKeyNoRecordNoRequest ==
  last.key = "unset" =>
    /\ last.result = "norecord"
    /\ last.requests = 0
    /\ cache[last.source] = stored[last.source]
    /\ pc = "aborted" => writes = 1

C10_Witness ==
  /\ last.source = "tides2d" /\ last.key = "unset" /\ last.force
  /\ stored.tides2d # Null /\ pc = "done"

\* C11: after a run that found no cache file, at hour 10, with both
\* credentials unset (each keyed fetcher returned no record) and the weather
\* fetch answered, the cache file holds the fetched weather record and an
\* astronomy and a tide entry that are not absent.
C11_ColdStartPersistsPlaceholders ==
  ( /\ pc = "done" /\ file0 = Missing /\ hourLocal(clock) = 10
    /\ journal.steps.weather = "ok"
    /\ journal.steps.astronomy = "norecord"
    /\ journal.steps.tides2d = "norecord" /\ last.key = "unset" )
  => LET persisted == readCache(file) IN
     /\ Truthy(persisted.weather) /\ persisted.weather = weather
     /\ Truthy(persisted.astronomy)
     /\ Truthy(persisted.tides2d)

C14_ReadCacheFallsBackToEmpty ==
  /\ pc = "readCache" => ENABLED ReadCache
  /\ file0.kind # "json" =>
       /\ pc = "weather" => cache = [weather |-> Null, tides2d |-> Null, astronomy |-> Null]
       /\ last.source \in Sources => last.should
       /\ pc = "aborted" => (resolved = Sources /\ writes = 1)

C14_Witness ==
  /\ file0 = Unparseable_file /\ pc = "done" /\ file.kind = "json"
  /\ last.source = "tides2d" /\ last.should /\ ~last.force

\* C15: whatever parseable content the run finds in the cache file (the
\* text null, an object without some keys, keys without the expected
\* members) no TypeError ends it, and every key that is missing or lacks
\* the expected members is fetched as an absent one is.
C15_AnyParseableCacheIsTolerated ==
  /\ last.result # "TypeError"
  /\ \A s \in Sources :
       (last.source = s /\ (~Truthy(stored[s]) \/ stored[s] = Foreign)) => last.should

\* C16: in a run at hour 6 on a store with an astronomy entry stamped
\* yesterday and a tide entry, with the credential set and the fetch
\* answered, the new astronomy entry is stamped today and the astronomy step
\* leaves the tide entry as read; the tide step, its force flag off, skips,
\* and the file written holds the tide entry as read.
C16_AstronomyRefreshLeavesTides ==
  /\ ( /\ last.source = "astronomy" /\ last.result = "ok" /\ last.key = "set"
       /\ hourLocal(clock) = 6
       /\ Truthy(stored.astronomy) /\ stored.astronomy._date = ymdLocal(clock) - 1
       /\ Truthy(stored.tides2d) )
     => /\ cache.astronomy._date = ymdLocal(clock)
        /\ cache.astronomy # stored.astronomy
        /\ astronomy = cache.astronomy
        /\ cache.tides2d = stored.tides2d
  /\ ( /\ last.source = "tides2d" /\ ~last.force /\ hourLocal(clock) = 6
       /\ Truthy(stored.tides2d) )
     => /\ last.result = "skipped"
        /\ cache.tides2d = stored.tides2d
        /\ pc = "done" => readCache(file).tides2d = stored.tides2d

C16_Witness ==
  /\ pc = "tides" /\ last.source = "astronomy" /\ last.result = "ok" /\ ~last.force
  /\ hourLocal(clock) = 6
  /\ Truthy(stored.astronomy) /\ stored.astronomy._date = ymdLocal(clock) - 1
  /\ Truthy(stored.tides2d) /\ cache.astronomy._date = ymdLocal(clock)

\* the hour at which a source with a day stamp is due
refreshHour(s) == IF s = "astronomy" THEN 6 ELSE 2

\* C17: in every step of every run, an astronomy (resp. tide) entry that is
\* present is replaced, the force flag off, only at hour 6 (resp. 2) and only
\* when its stamp is not today's: at any other hour the store keeps the
\* entry, stale stamp and all; and the write changes an entry of the file
\* only to what such a step put in the store.
C17_StaleEntryWaitsForItsHour ==
  [][ /\ \A s \in {"astronomy", "tides2d"} :
           ( /\ last'.source = s /\ last.source # s /\ ~last'.force
             /\ Truthy(cache[s]) /\ cache'[s] # cache[s] )
           => /\ hourLocal(clock) = refreshHour(s)
              /\ cache[s]._date # ymdLocal(clock)
      /\ (pc = "writeCache" /\ file' # file) =>
           \A s \in Sources :
             readCache(file')[s] # readCache(file)[s] => cache[s] # stored[s]
    ]_vars

C17_Witness ==
  /\ last.source = "astronomy" /\ ~last.force /\ hourLocal(clock) = 7
  /\ Truthy(stored.astronomy) /\ stored.astronomy._date = ymdLocal(clock) - 1
  /\ cache.astronomy = stored.astronomy

onDay(list, day) == SelectSeq(list, LAMBDA e : ymdLocal(e.time) = day)

ascending(bucket) ==
  \A i, j \in DOMAIN bucket : i < j => bucket[i].time.hour <= bucket[j].time.hour

\* C19: of every list the source returns, the record's today bucket holds
\* only events of the day todayKey and its tomorrow bucket only events of
\* the day tomorrowKey, all of them taken from the list and none left out
\* while the bucket has room; each bucket is in ascending order of time and
\* holds at most 4 events.
C19_TideBucketsSortedAndCapped ==
  (pc = "fetched" /\ last.result \in {"ok", "degenerate"} /\ "data" \in DOMAIN last.answer.body) =>
    LET list == last.answer.body.data
        raw == tides2d.raw
        holds(bucket, day) ==
          /\ \A i \in DOMAIN bucket :
               /\ ymdLocal(bucket[i].time) = day
               /\ \E k \in DOMAIN list : list[k].time = bucket[i].time
          /\ Len(onDay(list, day)) <= 4 => Len(bucket) = Len(onDay(list, day))
          /\ ascending(bucket)
          /\ Len(bucket) <= 4
    IN /\ holds(raw.today, tides2d.todayKey)
       /\ holds(raw.tomorrow, tides2d.tomorrowKey)
       /\ Len(tides2d.todayItems) = Len(raw.today)
       /\ Len(tides2d.tomorrowItems) = Len(raw.tomorrow)

\* C20: a first answer that is not a success, or that lists no event, is
\* followed by exactly one more request, and the record with two empty
\* buckets is returned only after that second request.
C20_EmptyPrimaryWindowIsRetriedOnce ==
  pc = "fetched" =>
    /\ ( \/ (last.answer.net = "response" /\ last.answer.status # 200)
         \/ (last.answer.net = "response" /\ last.answer.json
               /\ member(last.answer.body, "data", <<>>) = <<>>) )
       => last.requests = 2
    /\ ( /\ Truthy(tides2d) /\ tides2d.raw.today = <<>> /\ tides2d.raw.tomorrow = <<>>
         /\ member(last.answer.body, "data", <<>>) = <<>> )
       => last.requests = 2

IconTags == {"clear-day", "partly-cloudy", "cloudy", "rain", "fog", "snow", "thunderstorm"}

\* C21: whatever body the weather source answers with, the code in the map,
\* not in it or missing, fetchWeather returns a record (it does not throw),
\* the icon of the record is one of the seven tags, the tag of the map for a
\* code of the map and clear-day for every other code and for none.
C21_IconIsOfTheClosedSet ==
  (pc = "fetched" /\ last.source = "weather" /\ last.answer.net = "response" /\ last.answer.json) =>
    /\ last.result # "threw"
    /\ Truthy(weather)
    /\ weather.icon \in IconTags
    /\ LET w == member(last.answer.body, "current_weather", [none |-> TRUE]) IN
       IF "weathercode" \in DOMAIN w /\ w.weathercode \in {0, 1, 2, 3, 45, 51, 61, 71, 95}
       THEN weather.icon = codeMap(w.weathercode)
       ELSE weather.icon = "clear-day"

C21_Witness ==
  /\ pc = "fetched" /\ last.source = "weather" /\ last.result = "ok"
  /\ "weathercode" \in DOMAIN last.answer.body.current_weather
  /\ last.answer.body.current_weather.weathercode = 48
  /\ weather.icon = "clear-day"

\* round(c * 9/5 + 32) of a temperature in tenths, rounded once
fahrenheitOf(tenths) == (18 * tenths + 3250) \div 100

\* round(kmh * 0.621371) of a speed in tenths, rounded once
mphOf(tenths) == (tenths * 621371 + 5000000) \div 10000000

\* C22: for every temperature and wind speed the source reports, whole or
\* not, the record's f is the source's temperature converted and then
\* rounded, and its mph the source's wind speed converted and then rounded.
C22_RoundedAfterConversion ==
  (pc = "fetched" /\ last.source = "weather" /\ last.result = "ok") =>
    LET w == last.answer.body.current_weather IN
    /\ weather.f = fahrenheitOf(w.temperature)
    /\ weather.mph = mphOf(w.windspeed)

\* C23: the icon of the astronomy record is the slug of the moon-phase label
\* when the source gives a label that is not empty, and full-moon when the
\* label is empty or missing.
C23_MoonIconSlugOrDefault ==
  (pc = "fetched" /\ last.source = "astronomy" /\ last.result = "ok") =>
    LET a == last.answer.body.astronomy.astro IN
    IF "moon_phase" \in DOMAIN a /\ a.moon_phase # ""
    THEN astronomy.phaseIcon = slug(a.moon_phase)
    ELSE astronomy.phaseIcon = "full-moon"

\* C24: the pages on disk after a run are the four pages, each redirecting
\* to the next of weather, tides, moon, sun and the last to the first: from
\* any page, following the redirects visits the four pages and is back at
\* the page after exactly 4 steps, and not before.
C24_PagesFormOneCycle ==
  /\ pc = "done" => pages # NoPages
  /\ pages # NoPages =>
       /\ DOMAIN pages = {"page1-weather.html", "page2-tides.html", "page3-moon.html", "page4-sun.html"}
       /\ pages["page1-weather.html"] = "page2-tides.html"
       /\ pages["page2-tides.html"] = "page3-moon.html"
       /\ pages["page3-moon.html"] = "page4-sun.html"
       /\ pages["page4-sun.html"] = "page1-weather.html"
       /\ \A p \in DOMAIN pages :
            /\ {p, pages[p], pages[pages[p]], pages[pages[pages[p]]]} = DOMAIN pages
            /\ pages[pages[pages[pages[p]]]] = p
            /\ p \notin {pages[p], pages[pages[p]], pages[pages[pages[p]]]}

C24_Witness ==
  /\ pc = "done" /\ writes = 1
  /\ pages[pages[pages[pages["page3-moon.html"]]]] = "page3-moon.html"

\* C25: when the store has no entry of a source after the fetch steps, the
\* local the pages are made of is that source's placeholder, and otherwise
\* the entry; so in every run, whatever cache file it started on, from the
\* write on the three locals are records with every member the pages read.
C25_AbsentEntryRendersAsPlaceholder ==
  pc \in {"writePages", "done"} =>
    /\ weather = IF Truthy(cache.weather) THEN cache.weather
                 ELSE [c |-> 0, f |-> 32, kmh |-> 0, mph |-> 0, winddir |-> 0, icon |-> "clear-day"]
    /\ astronomy = IF Truthy(cache.astronomy) THEN cache.astronomy
                   ELSE [sunrise |-> "--:--", sunset |-> "--:--",
                         phaseName |-> NoLabel, phaseIcon |-> "full-moon"]
    /\ tides2d = IF Truthy(cache.tides2d) THEN cache.tides2d
                 ELSE [todayItems |-> <<NoLabel>>, tomorrowItems |-> <<NoLabel>>,
                       raw |-> [today |-> <<>>, tomorrow |-> <<>>],
                       todayKey |-> ymdLocal(clock), tomorrowKey |-> ymdLocal(clock) + 1]
    /\ Truthy(weather) /\ Truthy(astronomy) /\ Truthy(tides2d)
    /\ {"c", "f", "kmh", "mph", "winddir", "icon"} \subseteq DOMAIN weather
    /\ {"sunrise", "sunset", "phaseName", "phaseIcon"} \subseteq DOMAIN astronomy
    /\ {"todayKey", "tomorrowKey", "todayItems", "tomorrowItems"} \subseteq DOMAIN tides2d

\* C26: at every point of a run, whatever the clock, the cache, the flags
\* and the answers, the run has sent at most one request to each source,
\* and at most three in all.
C26_AtMostOneRequestPerSource ==
  /\ \A s \in Sources : journal.sent[s] <= 1
  /\ journal.sent.weather + journal.sent.astronomy + journal.sent.tides2d <= 3
  /\ last.requests <= 1

C26_Witness ==
  /\ pc = "done"
  /\ journal.sent.weather + journal.sent.astronomy + journal.sent.tides2d = 3
  /\ journal.steps.astronomy = "threw"

\* C27: with the three steps begun and merged in any order and interleaving,
\* a step leaves every key but its own as it was, a key whose step has not
\* merged holds the entry read, and with the three steps over the store (and
\* then the file written) is the one the script's own order gives for the
\* same clock, flags, cache and answers.
C27_StepsAreIndependent ==
  /\ pc = "fetching" => \A s \in Sources \ resolved : cache[s] = stored[s]
  /\ (pc \in {"fetching", "writeCache", "writePages", "done"}) =>
       \A s \in resolved : cache[s] = entryAfter(s, stored, clock, journal.drawn[s].in)
  /\ pc \in {"writeCache", "writePages", "done"} =>
       cache = inScriptOrder(stored, clock, journal.drawn)
  /\ pc = "done" => readCache(file) = inScriptOrder(stored, clock, journal.drawn)

C27_Witness ==
  /\ pc = "fetching" /\ resolved = {"tides2d"} /\ cache.tides2d # stored.tides2d
  /\ DOMAIN journal.drawn = {"tides2d", "astronomy"} /\ journal.drawn.astronomy.should

\* C28: nothing keeps two invocations apart: the second reads whenever it
\* is at its read, whatever the first is doing, and a write of either puts
\* its whole store in the file, whatever the file holds by then, the entries
\* the other has refreshed and written since included.  (The witness is the
\* lost update: the first run has written an astronomy entry it refreshed,
\* and the file holds the older entry again, from the second run's write.)
C28_WritesAreWholeAndUnguarded ==
  [][ /\ (journal.other.pc = "readCache") => ENABLED OtherRead
      /\ (journal.other.pc = "writeCache" /\ journal'.other.pc = "written") =>
           /\ readCache(file') = journal.other.cache
           /\ \A s \in Sources :
                (journal.other.cache[s] # readCache(file)[s]) =>
                   readCache(file')[s] # readCache(file)[s]
      /\ (pc = "writeCache" /\ pc' = "writePages") => readCache(file') = cache
    ]_vars

C28_Witness ==
  /\ pc \in {"writePages", "done"} /\ writes = 1
  /\ Truthy(stored.astronomy) /\ Truthy(cache.astronomy)
  /\ cache.astronomy._date # stored.astronomy._date
  /\ journal.other.pc = "written"
  /\ readCache(file).astronomy = stored.astronomy

\* both buckets of a tide record are empty
noEvents(t) == t.raw.today = <<>> /\ t.raw.tomorrow = <<>> /\ t.todayItems = <<>> /\ t.tomorrowItems = <<>>

\* C29: a tide fetch with the credential set that the source answers with
\* success and no events leaves in the store a record with empty buckets
\* stamped with today; and a run that reads a record with empty buckets
\* stamped with today, FORCE_TIDES off, does not call the tide fetcher.
C29_EmptyAnswerStampsToday ==
  /\ ( /\ last.source = "tides2d" /\ last.key = "set" /\ last.result = "ok"
       /\ noEvents(cache.tides2d) )
     => /\ tides2d = cache.tides2d
        /\ cache.tides2d._date = ymdLocal(clock)
  /\ ( /\ last.source = "tides2d" /\ ~last.force /\ Truthy(stored.tides2d)
       /\ noEvents(stored.tides2d) /\ stored.tides2d._date = ymdLocal(clock) )
     => (last.result = "skipped" /\ last.requests = 0)

\* C30: the stamp of the tide record a fetch returns is the day of the
\* civil clock at the fetch, at every hour and for either host zone.
C30_TideStampIsCivilToday ==
  (last.source = "tides2d" /\ returnedRecord(last.result)) =>
    /\ cache.tides2d._date = ymdLocal(clock)
    /\ cache.tides2d.todayKey = ymdLocal(clock)
    /\ cache.tides2d.tomorrowKey = ymdLocal(clock) + 1
====
